---- MODULE Spec2Model ----
(***************************************************************************)
(* Model of the traffic-light timing optimizer (optimize_timings.py) and    *)
(* the scenario replayer (run_simulation.py).                               *)
(*                                                                          *)
(*   Spec      one simulation session against the external engine:          *)
(*             run_single_simulation (mode "single") or                     *)
(*             run_simulation / TrafficSimulator (mode "replay").           *)
(*   FairSpec  Spec with weak fairness of the session's own steps.          *)
(*   GenSpec   calls of create_command_list on the process-wide generator.  *)
(*   CostSpec  calls of ScenarioMetrics.cost.                               *)
(*   GridSpec  one call of grid_search.                                     *)
(*   CompSpec  the compromise search of multi_scenario_optimization.        *)
(*   TurnSpec  repeated applications of get_left_turn_target.               *)
(*   FileSpec  run_simulation from the loading of its scenario file.        *)
(*   OptSpec   multi_scenario_optimization: norms, optima, compromise.      *)
(*   NormSpec  calculate_global_norms: every scenario over the whole grid. *)
(***************************************************************************)
EXTENDS Integers, Sequences, FiniteSets, TLC

\* ------------------------------------------------------------------ bounds
MaxCmds == 3
MaxDeparted == 2

\* ------------------------------------------------------- program constants
CMD_CONFIG == 0
CMD_ADD_VEHICLE == 1
CMD_STEP == 2
CMD_STOP == 99
HEADER_SIZE == 11
ID_SIZE == 32

ROADS == <<"north", "east", "south", "west">>

RoadIndex(r) == CHOOSE i \in 1..Len(ROADS) : ROADS[i] = r

get_left_turn_target_Opposite(start_road) ==
  ROADS[((RoadIndex(start_road) - 1 + 2) % 4) + 1]

\* ROADS[(idx + 1) % 4], idx counted from 0
get_left_turn_target(start_road) == ROADS[((RoadIndex(start_road) - 1 + 1) % 4) + 1]

\* ------------------------------------------------------------- arithmetic
RECURSIVE SumSeq(_)
SumSeq(s) == IF s = <<>> THEN 0 ELSE s[1] + SumSeq(Tail(s))

RECURSIVE MaxSeq(_)
MaxSeq(s) == IF Len(s) = 1 THEN s[1]
             ELSE LET m == MaxSeq(Tail(s)) IN IF s[1] >= m THEN s[1] ELSE m

\* A float that is a quotient of two integers is kept as the pair <<num, den>>.
Mean(s) == IF s # <<>> THEN <<SumSeq(s), Len(s)>> ELSE <<0, 1>>

\* ------------------------------------------------------------ session data
\* Vehicle ids are short texts, kept as sequences of character codes.
VehIds == {<<1>>, <<1, 2>>}
\* An id the engine may report although no command ever added it.
EngineIds == VehIds \cup {<<3>>}
Routes == {<<"north", "east">>, <<"north", "south">>}

StepCmd == [type |-> "step"]
AddCmds == {[type |-> "addVehicle", vehicleId |-> v, startRoad |-> r[1], endRoad |-> r[2]] :
              v \in VehIds, r \in Routes}
CmdSet == AddCmds \cup {StepCmd}
CommandLists == UNION {[1..n -> CmdSet] : n \in 0..MaxCmds}

\* Bytes of one 32-byte id slot that a read may deliver before end of file.
PartialBytes == {0, 1, 2, ID_SIZE - 1}
\* Lengths of a header cut short by end of file.
ShortLens == {0, 1, HEADER_SIZE - 1}

VARIABLES
  mode,             \* "single": run_single_simulation, "replay": run_simulation
  binary_exists,    \* os.path.exists(C_BINARY_PATH)
  commands,         \* scenario_data["commands"]
  pc,               \* position of the session in its code
  cmd_i,            \* index of the command the replay loop is at
  current_step,
  arrival_times,    \* dict vehicle id -> arrival step
  wait_times,
  left_wait_times,
  wait_ids,         \* per entry of wait_times: the decoded id and the position in
                    \* sent of the STEP whose response reported it
  header_len,       \* len(header_data) of the last read
  v_count,
  raw_len,          \* len(raw_ids) of the last read
  sent,             \* the messages written to the engine's stdin, in order
  eng,              \* the engine process
  result,           \* what the run returned, or the error it raised
  rng,              \* state of the process-wide generator of module random
  gen_first,        \* per (seed, scenario): the first command list produced
  gen_last,         \* the latest call of create_command_list and its result
  gen_runs,         \* simulation runs made between the calls
  c_pc, c_in, c_out,    \* one call of ScenarioMetrics.cost: arguments, result
  gs_pc, gs_scenario, gs_norms, gs_weights, gs_data, gs_i,
  best_cost, best_params, results, gs_ret,          \* grid_search
  cp_pc, cp_scenarios, cp_norms, cp_weights, cp_i, cp_s, cp_data,
  total_cost, scenario_costs, compromise_results, cp_ret,  \* compromise search
  t_road, t_val, t_n,   \* get_left_turn_target applied t_n times from t_road
  file_parses,          \* json.load(f) of run_simulation succeeds
  mo_pc, mo_scenarios, global_norms, norm_calls, mo_k,
  scenario_optima,      \* multi_scenario_optimization
  cn_pc, cn_scenarios, cn_s, cn_i, cn_data, all_avg, all_max, all_left,
  cn_runs,              \* one record per call of run_single_simulation
  cn_ret                \* calculate_global_norms

sessVars == <<mode, binary_exists, commands, pc, cmd_i, current_step, arrival_times,
              wait_times, left_wait_times, wait_ids, header_len, v_count, raw_len,
              sent, eng, result>>

genVars == <<gen_first, gen_last, gen_runs>>
costVars == <<c_pc, c_in, c_out>>
gridVars == <<gs_pc, gs_scenario, gs_norms, gs_weights, gs_data, gs_i,
              best_cost, best_params, results, gs_ret>>
compVars == <<cp_pc, cp_scenarios, cp_norms, cp_weights, cp_i, cp_s, cp_data,
              total_cost, scenario_costs, compromise_results, cp_ret>>

turnVars == <<t_road, t_val, t_n>>
\* The parts of the state that the sessions and the searches never touch.
fileVars == <<file_parses>>
optVars == <<mo_pc, mo_scenarios, global_norms, norm_calls, mo_k, scenario_optima>>
normVars == <<cn_pc, cn_scenarios, cn_s, cn_i, cn_data, all_avg, all_max, all_left,
              cn_runs, cn_ret>>
auxVars == <<turnVars, fileVars, optVars, normVars>>

vars == <<sessVars, rng, genVars, costVars, gridVars, compVars, auxVars>>

NoResult == [kind |-> "none"]
Raised(e) == [kind |-> "error", error |-> e]

\* A write to stdin followed by flush succeeds while the engine holds the
\* read end of the pipe; after the engine exited it raises BrokenPipeError.
WriteOK == eng \in {"running", "hung", "outClosed"}

InitSession ==
  /\ mode \in {"single", "replay"}
  /\ binary_exists \in BOOLEAN
  /\ commands \in CommandLists
  /\ pc = "start"
  /\ cmd_i = 1
  /\ current_step = 0
  /\ arrival_times = <<>>
  /\ wait_times = <<>>
  /\ left_wait_times = <<>>
  /\ wait_ids = <<>>
  /\ header_len = 0
  /\ v_count = 0
  /\ raw_len = 0
  /\ sent = <<>>
  /\ eng = "none"
  /\ result = NoResult

AfterCmd_LeavesEarly(i) == "cleanup"

\* Where the replay loop goes after the command at index i is done.
AfterCmd(i) == IF i + 1 > Len(commands) THEN "cleanup" ELSE "replay"

\* ScenarioMetrics of run_single_simulation / the metrics dict of run_simulation.
Metrics(w, l) ==
  [kind |-> "metrics",
   avg_wait |-> Mean(w),
   max_wait |-> IF w # <<>> THEN MaxSeq(w) ELSE 0,
   throughput |-> Len(w),
   left_wait |-> Mean(l)]

ReplayMetrics(w) ==
  [kind |-> "metrics",
   avg_wait |-> Mean(w),
   max_wait |-> IF w # <<>> THEN MaxSeq(w) ELSE 0,
   throughput |-> Len(w)]

FinalMetrics == IF mode = "single" THEN Metrics(wait_times, left_wait_times)
                ELSE ReplayMetrics(wait_times)

\* ---------------------------------------------------------------- actions
\* Existence check of the binary and Popen.
Spawn ==
  /\ pc = "start"
  /\ IF binary_exists
       THEN /\ eng' = "running"
            /\ pc' = "config"
            /\ result' = result
       ELSE /\ eng' = eng
            /\ pc' = "failed"
            /\ result' = Raised("FileNotFoundError")
  /\ UNCHANGED <<mode, binary_exists, commands, cmd_i, current_step, arrival_times,
                 wait_times, left_wait_times, wait_ids, header_len, v_count, raw_len, sent>>
  /\ UNCHANGED <<rng, genVars, costVars, gridVars, compVars, auxVars>>

ConfigMsg == [tag |-> CMD_CONFIG]

SendConfig ==
  /\ pc = "config"
  /\ IF WriteOK
       THEN /\ sent' = Append(sent, ConfigMsg)
            /\ pc' = IF Len(commands) = 0 THEN "cleanup" ELSE "replay"
            /\ result' = result
       ELSE /\ sent' = sent
            /\ pc' = "failed"
            /\ result' = Raised("BrokenPipeError")
  /\ UNCHANGED <<mode, binary_exists, commands, cmd_i, current_step, arrival_times,
                 wait_times, left_wait_times, wait_ids, header_len, v_count, raw_len, eng>>
  /\ UNCHANGED <<rng, genVars, costVars, gridVars, compVars, auxVars>>

\* A command dict is a record of the keys it has.  A well-formed command has
\* its type and, for addVehicle, its id and two roads of ROADS.
HasKey(cmd, k) == k \in DOMAIN cmd
WellFormed(cmd) ==
  /\ HasKey(cmd, "type")
  /\ cmd.type = "addVehicle" =>
       /\ HasKey(cmd, "vehicleId") /\ HasKey(cmd, "startRoad") /\ HasKey(cmd, "endRoad")
       /\ \E i \in 1..Len(ROADS) : ROADS[i] = cmd.startRoad
       /\ \E i \in 1..Len(ROADS) : ROADS[i] = cmd.endRoad

AddMsg(i, cmd, step) ==
  [tag |-> CMD_ADD_VEHICLE, cmd |-> i, vehicleId |-> cmd.vehicleId,
   start_id |-> RoadIndex(cmd.startRoad) - 1, end_id |-> RoadIndex(cmd.endRoad) - 1,
   arrival |-> step]

\* dict assignment d[k] = v
DictPut(d, k, v) == [x \in (DOMAIN d) \cup {k} |-> IF x = k THEN v ELSE d[x]]

AddVehicle ==
  /\ pc = "replay"
  /\ WellFormed(commands[cmd_i])
  /\ commands[cmd_i].type = "addVehicle"
  /\ arrival_times' = DictPut(arrival_times, commands[cmd_i].vehicleId, current_step)
  /\ IF WriteOK
       THEN /\ sent' = Append(sent, AddMsg(cmd_i, commands[cmd_i], current_step))
            /\ pc' = AfterCmd(cmd_i)
            /\ cmd_i' = cmd_i + 1
            /\ result' = result
       ELSE /\ sent' = sent
            /\ pc' = "failed"
            /\ cmd_i' = cmd_i
            /\ result' = Raised("BrokenPipeError")
  /\ UNCHANGED <<mode, binary_exists, commands, current_step, wait_times, left_wait_times,
                 wait_ids, header_len, v_count, raw_len, eng>>
  /\ UNCHANGED <<rng, genVars, costVars, gridVars, compVars, auxVars>>

StepMsg(i) == [tag |-> CMD_STEP, cmd |-> i]

SendStep ==
  /\ pc = "replay"
  /\ WellFormed(commands[cmd_i])
  /\ commands[cmd_i].type = "step"
  /\ current_step' = current_step + 1
  /\ IF WriteOK
       THEN /\ sent' = Append(sent, StepMsg(cmd_i))
            /\ pc' = "readHeader"
            /\ result' = result
       ELSE /\ sent' = sent
            /\ pc' = "failed"
            /\ result' = Raised("BrokenPipeError")
  /\ UNCHANGED <<mode, binary_exists, commands, cmd_i, arrival_times, wait_times,
                 left_wait_times, wait_ids, header_len, v_count, raw_len, eng>>
  /\ UNCHANGED <<rng, genVars, costVars, gridVars, compVars, auxVars>>

\* The engine's answer to STEP: a header shorter than 11 bytes.
ShortHeader(k) ==
  /\ header_len' = k
  /\ v_count' = v_count
  /\ cmd_i' = cmd_i
  /\ IF mode = "single"
       THEN /\ pc' = "cleanup"
            /\ result' = result
       ELSE /\ pc' = "failed"
            /\ result' = Raised(IF k = 0 THEN "RuntimeError" ELSE "struct.error")

\* proc.stdout.read(11) returns: with the whole header while the engine
\* answers, with fewer bytes when the engine closes its output first.  It does
\* not return while the engine hangs.
ReadHeader ==
  /\ pc = "readHeader"
  /\ eng # "hung"
  /\ \/ /\ eng = "running"
        /\ \E vc \in 0..MaxDeparted :
             /\ header_len' = HEADER_SIZE
             /\ v_count' = vc
             /\ IF vc > 0
                  THEN pc' = "readIds" /\ cmd_i' = cmd_i
                  ELSE pc' = AfterCmd(cmd_i) /\ cmd_i' = cmd_i + 1
        /\ eng' = eng
        /\ result' = result
     \/ /\ eng = "running"
        /\ \E k \in ShortLens : ShortHeader(k)
        /\ eng' \in {"outClosed", "exited"}
     \/ /\ eng \in {"outClosed", "exited"}
        /\ ShortHeader(0)
        /\ eng' = eng
  /\ UNCHANGED <<mode, binary_exists, commands, current_step, arrival_times, wait_times,
                 left_wait_times, wait_ids, raw_len, sent>>
  /\ UNCHANGED <<rng, genVars, costVars, gridVars, compVars, auxVars>>

Min2(a, b) == IF a <= b THEN a ELSE b
Max2(a, b) == IF a >= b THEN a ELSE b

\* raw_ids[i*32:(i+1)*32].decode('utf-8').strip('\x00') for every slot, when
\* only got bytes of the ids were read.
Decoded(ids, got) ==
  [i \in 1..Len(ids) |->
     LET avail == Max2(0, Min2(ID_SIZE, got - ID_SIZE * (i - 1)))
     IN SubSeq(ids[i], 1, Min2(Len(ids[i]), avail))]

Wait_OffByOne(step, arrival) == step - 1 - arrival

Wait(step, arrival) == step - arrival

IsLeftTurn_IgnoresId(v_id) ==
  LET S == {j \in 1..Len(commands) : commands[j].type = "addVehicle"}
  IN /\ S # {}
     /\ LET c == commands[CHOOSE j \in S : \A k \in S : j <= k]
        IN get_left_turn_target(c.startRoad) = c.endRoad

\* next((c for c in commands if c.get("vehicleId") == v_id), None) and the
\* left-turn test on it.
IsLeftTurn(v_id) ==
  LET S == {j \in 1..Len(commands) :
              commands[j].type = "addVehicle" /\ commands[j].vehicleId = v_id}
  IN /\ S # {}
     /\ LET c == commands[CHOOSE j \in S : \A k \in S : j <= k]
        IN get_left_turn_target(c.startRoad) = c.endRoad

RECURSIVE ProcessIds_StopsAtUnknown(_, _, _)
ProcessIds_StopsAtUnknown(texts, i, acc) ==
  IF i > Len(texts) \/ texts[i] \notin DOMAIN arrival_times THEN acc
  ELSE LET wait == Wait(current_step, arrival_times[texts[i]])
       IN ProcessIds_StopsAtUnknown(texts, i + 1,
            [w |-> Append(acc.w, wait),
             l |-> IF mode = "single" /\ IsLeftTurn(texts[i])
                     THEN Append(acc.l, wait) ELSE acc.l,
             ids |-> Append(acc.ids, [id |-> texts[i], at |-> Len(sent)])])

\* The loop over the departed ids of one response.
RECURSIVE ProcessIds(_, _, _)
ProcessIds(texts, i, acc) ==
  IF i > Len(texts) THEN acc
  ELSE LET v_id == texts[i] IN
       IF v_id \in DOMAIN arrival_times
         THEN LET wait == Wait(current_step, arrival_times[v_id])
              IN ProcessIds(texts, i + 1,
                   [w |-> Append(acc.w, wait),
                    l |-> IF mode = "single" /\ IsLeftTurn(v_id)
                            THEN Append(acc.l, wait) ELSE acc.l,
                    ids |-> Append(acc.ids, [id |-> v_id, at |-> Len(sent)])])
         ELSE ProcessIds(texts, i + 1, acc)

GotIds(ids, got) ==
  LET r == ProcessIds(Decoded(ids, got), 1,
                      [w |-> wait_times, l |-> left_wait_times, ids |-> wait_ids])
  IN /\ raw_len' = got
     /\ wait_times' = r.w
     /\ left_wait_times' = r.l
     /\ wait_ids' = r.ids
     /\ pc' = AfterCmd(cmd_i)
     /\ cmd_i' = cmd_i + 1

\* proc.stdout.read(v_count * 32) and the processing of what it returned.
ReadIds ==
  /\ pc = "readIds"
  /\ eng # "hung"
  /\ \/ /\ eng = "running"
        /\ \E ids \in [1..v_count -> EngineIds] : GotIds(ids, v_count * ID_SIZE)
        /\ eng' = eng
     \/ /\ eng = "running"
        /\ \E ids \in [1..v_count -> EngineIds], s \in 0..(v_count - 1), b \in PartialBytes :
             GotIds(ids, ID_SIZE * s + b)
        /\ eng' \in {"outClosed", "exited"}
     \/ /\ eng \in {"outClosed", "exited"}
        /\ GotIds([i \in 1..v_count |-> <<>>], 0)
        /\ eng' = eng
  /\ UNCHANGED <<mode, binary_exists, commands, current_step, arrival_times, header_len,
                 v_count, sent, result>>
  /\ UNCHANGED <<rng, genVars, costVars, gridVars, compVars, auxVars>>

StopMsg == [tag |-> CMD_STOP]

\* The write of STOP: the cleanup of run_single_simulation, or
\* TrafficSimulator.close, whose except clause kills the process.
SendStop ==
  /\ pc = "cleanup"
  /\ IF WriteOK
       THEN /\ sent' = Append(sent, StopMsg)
            /\ pc' = "waitExit"
            /\ result' = result
            /\ eng' = eng
       ELSE /\ sent' = sent
            /\ IF mode = "single"
                 THEN /\ pc' = "failed"
                      /\ result' = Raised("BrokenPipeError")
                      /\ eng' = eng
                 ELSE /\ pc' = "returned"
                      /\ result' = FinalMetrics
                      /\ eng' = eng
  /\ UNCHANGED <<mode, binary_exists, commands, cmd_i, current_step, arrival_times,
                 wait_times, left_wait_times, wait_ids, header_len, v_count, raw_len>>
  /\ UNCHANGED <<rng, genVars, costVars, gridVars, compVars, auxVars>>

\* proc.wait(timeout=1): returns when the engine has exited, raises
\* TimeoutExpired when the second elapses first.
WaitExit ==
  /\ pc = "waitExit"
  /\ IF eng = "exited"
       THEN /\ pc' = "returned"
            /\ result' = FinalMetrics
            /\ eng' = eng
       ELSE IF mode = "single"
         THEN /\ pc' = "failed"
              /\ result' = Raised("TimeoutExpired")
              /\ eng' = eng
         ELSE /\ pc' = "returned"
              /\ result' = FinalMetrics
              /\ eng' = "killed"
  /\ UNCHANGED <<mode, binary_exists, commands, cmd_i, current_step, arrival_times,
                 wait_times, left_wait_times, wait_ids, header_len, v_count, raw_len, sent>>
  /\ UNCHANGED <<rng, genVars, costVars, gridVars, compVars, auxVars>>

\* ------------------------------------------------------------- the engine
\* The engine is an external process: it may stop answering, and it may exit
\* (on STOP, or by crashing) at any moment.
EngineHang ==
  /\ eng = "running"
  /\ pc \notin {"returned", "failed"}
  /\ eng' = "hung"
  /\ UNCHANGED <<mode, binary_exists, commands, pc, cmd_i, current_step, arrival_times,
                 wait_times, left_wait_times, wait_ids, header_len, v_count, raw_len,
                 sent, result>>
  /\ UNCHANGED <<rng, genVars, costVars, gridVars, compVars, auxVars>>

EngineExit ==
  /\ eng \in {"running", "hung", "outClosed"}
  /\ pc \notin {"returned", "failed"}
  /\ eng' = "exited"
  /\ UNCHANGED <<mode, binary_exists, commands, pc, cmd_i, current_step, arrival_times,
                 wait_times, left_wait_times, wait_ids, header_len, v_count, raw_len,
                 sent, result>>
  /\ UNCHANGED <<rng, genVars, costVars, gridVars, compVars, auxVars>>

\* --------------------------------------------- parts at rest in a run
IdleSession ==
  /\ mode = "single"
  /\ binary_exists = TRUE
  /\ commands = <<>>
  /\ pc = "idle"
  /\ cmd_i = 1
  /\ current_step = 0
  /\ arrival_times = <<>>
  /\ wait_times = <<>>
  /\ left_wait_times = <<>>
  /\ wait_ids = <<>>
  /\ header_len = 0
  /\ v_count = 0
  /\ raw_len = 0
  /\ sent = <<>>
  /\ eng = "none"
  /\ result = NoResult

IdleCost ==
  /\ c_pc = "idle"
  /\ c_in = <<>>
  /\ c_out = <<>>

IdleGrid ==
  /\ gs_pc = "idle"
  /\ gs_scenario = <<>>
  /\ gs_norms = <<>>
  /\ gs_weights = <<>>
  /\ gs_data = <<>>
  /\ gs_i = 0
  /\ best_cost = <<>>
  /\ best_params = <<>>
  /\ results = <<>>
  /\ gs_ret = <<>>

IdleComp ==
  /\ cp_pc = "idle"
  /\ cp_scenarios = <<>>
  /\ cp_norms = <<>>
  /\ cp_weights = <<>>
  /\ cp_i = 0
  /\ cp_s = 0
  /\ cp_data = <<>>
  /\ total_cost = <<>>
  /\ scenario_costs = <<>>
  /\ compromise_results = <<>>
  /\ cp_ret = <<>>

\* ------------------------------------------------- the scenario generator
SEED == 42
\* Steps of a scenario (200 and more in SCENARIOS).
GenSteps == 2
\* Scenarios of SCENARIOS that are used.
NumScen == 2
\* Simulation runs that may come between two calls of create_command_list.
MaxRuns == 2

\* SCENARIOS, with probabilities in hundredths.
SCENARIOS ==
  << [name |-> "steady",     steps |-> GenSteps, left_bias |-> 25],
     [name |-> "rush",       steps |-> GenSteps, left_bias |-> 25],
     [name |-> "ghost",      steps |-> GenSteps, left_bias |-> 25],
     [name |-> "asymmetric", steps |-> GenSteps, left_bias |-> 25],
     [name |-> "burst",      steps |-> GenSteps, left_bias |-> 25],
     [name |-> "left_heavy", steps |-> GenSteps, left_bias |-> 70] >>

\* scenario.prob_func(step, road)
prob_func(scenario, step, r) ==
  CASE scenario.name = "steady" -> 10
    [] scenario.name = "rush" -> IF r \in {"north", "south"} THEN 40 ELSE 5
    [] scenario.name = "ghost" -> 2
    [] scenario.name = "asymmetric" -> IF r = "north" THEN 40 ELSE 5
    [] scenario.name = "burst" -> IF 50 <= step /\ step <= 100 THEN 60 ELSE 5
    [] scenario.name = "left_heavy" -> 15

\* The scenarios that are used, the busiest within a few steps first.
ScenarioPick == <<2, 6, 1, 4, 5, 3>>
UsedScenarios ==
  [i \in 1..Min2(NumScen, Len(SCENARIOS)) |-> SCENARIOS[ScenarioPick[i]]]

\* The generator of module random, as a congruential generator on 64 states:
\* seeding sets the state from the seed alone, every draw advances it.
RandStates == 0..63
random_seed(seed) == seed % 64
RandAdvance(r) == (13 * r + 7) % 64
\* random.random() < p, p in hundredths, for the draw that left the state r.
RandomBelow(r, p) == r * 100 < p * 64
\* random.choice over n items, for the draw that left the state r.
ChoiceIndex(r, n) == ((r * n) \div 64) + 1

NoSeed == [given |-> FALSE, value |-> 0]
SeedArg(n) == [given |-> TRUE, value |-> n]
EffectiveSeed(seed) == IF seed.given THEN seed.value ELSE SEED

FirstLetter(r) == CASE r = "north" -> "n" [] r = "east" -> "e"
                    [] r = "south" -> "s" [] r = "west" -> "w"

VehicleId_NoCount(start, vehicle_count) == <<FirstLetter(start), 0>>

\* f"v_{start[0]}_{vehicle_count}": the letter and the number are kept.
VehicleId(start, vehicle_count) == <<FirstLetter(start), vehicle_count>>

PossibleTargets_KeepsLeft(start) == SelectSeq(ROADS, LAMBDA x : x # start)

\* [r for r in ROADS if r != start and r != get_left_turn_target(start)]
PossibleTargets(start) ==
  SelectSeq(ROADS, LAMBDA x : x # start /\ x # get_left_turn_target(start))

EndOfStep_OnlyAfterVehicle(cmds) ==
  IF cmds # <<>> /\ cmds[Len(cmds)].type = "addVehicle"
    THEN Append(cmds, StepCmd) ELSE cmds

\* commands.append({"type": "step"}) after the four roads of a step
EndOfStep(cmds) == Append(cmds, StepCmd)

\* The two nested loops of create_command_list, from (step, road index ri) on.
\* draws keeps, for every vehicle, the state the second draw left the
\* generator in.
RECURSIVE GenLoop(_, _, _, _, _, _, _)
GenLoop(scenario, step, ri, r, vehicle_count, cmds, draws) ==
  IF step >= scenario.steps THEN [commands |-> cmds, rng |-> r, draws |-> draws]
  ELSE IF ri > Len(ROADS)
    THEN GenLoop(scenario, step + 1, 1, r, vehicle_count, EndOfStep(cmds), draws)
    ELSE
      LET start == ROADS[ri]
          r1 == RandAdvance(r)
      IN IF ~RandomBelow(r1, prob_func(scenario, step, start))
           THEN GenLoop(scenario, step, ri + 1, r1, vehicle_count, cmds, draws)
           ELSE
             LET r2 == RandAdvance(r1)
                 left == RandomBelow(r2, scenario.left_bias)
                 r3 == IF left THEN r2 ELSE RandAdvance(r2)
                 possible_targets == PossibleTargets(start)
                 end == IF left THEN get_left_turn_target(start)
                        ELSE possible_targets[ChoiceIndex(r3, Len(possible_targets))]
             IN GenLoop(scenario, step, ri + 1, r3, vehicle_count + 1,
                        Append(cmds, [type |-> "addVehicle",
                                      vehicleId |-> VehicleId(start, vehicle_count + 1),
                                      startRoad |-> start,
                                      endRoad |-> end]),
                        Append(draws, r2))

create_command_list_NoSeed(scenario, seed, rng0) ==
  LET g == GenLoop(scenario, 0, 1, rng0, 0, <<>>, <<>>)
  IN [commands |-> g.commands, name |-> scenario.name, rng |-> g.rng, draws |-> g.draws]

\* create_command_list(scenario, seed) called when the generator is in state
\* rng0: the dict it returns, and the state it leaves the generator in.
create_command_list(scenario, seed, rng0) ==
  LET g == GenLoop(scenario, 0, 1, random_seed(EffectiveSeed(seed)), 0, <<>>, <<>>)
  IN [commands |-> g.commands, name |-> scenario.name, rng |-> g.rng, draws |-> g.draws]

SeedValues == {SEED, 7, 0}
SeedArgs == {NoSeed} \cup {SeedArg(n) : n \in SeedValues}
GenKeys == {<<n, sc>> : n \in SeedValues, sc \in 1..Len(UsedScenarios)}
NoCall == [called |-> FALSE, commands |-> <<>>]

InitGen ==
  /\ rng \in {0, 5}
  /\ gen_first = [k \in GenKeys |-> NoCall]
  /\ gen_last = [called |-> FALSE, key |-> <<SEED, 1>>, commands |-> <<>>,
                 draws |-> <<>>]
  /\ gen_runs = 0

IdleGen ==
  /\ gen_first = <<>>
  /\ gen_last = NoCall
  /\ gen_runs = 0

Gen_Create ==
  \E sc \in 1..Len(UsedScenarios), seed \in SeedArgs :
    LET out == create_command_list(UsedScenarios[sc], seed, rng)
        key == <<EffectiveSeed(seed), sc>>
    IN /\ rng' = out.rng
       /\ gen_last' = [called |-> TRUE, key |-> key, commands |-> out.commands,
                       draws |-> out.draws]
       /\ gen_first' = IF gen_first[key].called THEN gen_first
                       ELSE [gen_first EXCEPT ![key] =
                               [called |-> TRUE, commands |-> out.commands]]
       /\ gen_runs' = 0
       /\ UNCHANGED <<sessVars, costVars, gridVars, compVars, auxVars>>

\* A simulation run between two calls: run_single_simulation draws nothing
\* from the generator.
Gen_RunSimulation ==
  /\ gen_runs < MaxRuns
  /\ gen_runs' = gen_runs + 1
  /\ UNCHANGED <<rng, gen_first, gen_last>>
  /\ UNCHANGED <<sessVars, costVars, gridVars, compVars, auxVars>>

NextGen ==
  \/ Gen_Create
  \/ Gen_RunSimulation

\* --------------------------------------------------------- the cost model
\* Floats are kept as exact quotients <<num, den>>, den > 0.
Rat(n) == <<n, 1>>
RECURSIVE Gcd(_, _)
Gcd(a, b) == IF b = 0 THEN a ELSE Gcd(b, a % b)
\* The same quotient in lowest terms.
Lowest(a) == LET g == Gcd(a[1], a[2]) IN IF g = 0 THEN a ELSE <<a[1] \div g, a[2] \div g>>
RatLess(a, b) == a[1] * b[2] < b[1] * a[2]
RatEq(a, b) == a[1] * b[2] = b[1] * a[2]
RatAdd(a, b) == Lowest(<<a[1] * b[2] + b[1] * a[2], a[2] * b[2]>>)
RatMul(a, b) == Lowest(<<a[1] * b[1], a[2] * b[2]>>)
\* a / b for b > 0
RatDiv(a, b) == Lowest(<<a[1] * b[2], a[2] * b[1]>>)
\* min(a, b) of Python: b when b < a, else a
PyMin(a, b) == IF RatLess(b, a) THEN b ELSE a

\* An optional argument: None, or a value.
None == [some |-> FALSE, val |-> Rat(0)]
Some(v) == [some |-> TRUE, val |-> v]

\* Largest numerator of the metrics and baselines tried.
MaxVal == 2

\* min(1.0, x / norm) if norm > 0 else 0
NormTerm(x, norm) ==
  IF RatLess(Rat(0), norm) THEN PyMin(Rat(1), RatDiv(x, norm)) ELSE Rat(0)

\* The three terms the weights multiply, in either regime.
CostTerms(m, norm_avg, norm_max, norm_left) ==
  IF norm_avg.some /\ norm_max.some /\ norm_left.some
    THEN <<NormTerm(m.avg_wait, norm_avg.val),
           NormTerm(Rat(m.max_wait), norm_max.val),
           NormTerm(m.left_wait, norm_left.val)>>
    ELSE <<m.avg_wait, Rat(m.max_wait), m.left_wait>>

\* ScenarioMetrics.cost
cost(m, awt, max, left, norm_avg, norm_max, norm_left) ==
  LET t == CostTerms(m, norm_avg, norm_max, norm_left)
  IN RatAdd(RatAdd(RatMul(awt, t[1]), RatMul(max, t[2])), RatMul(left, t[3]))

\* The weights of the policies, in tenths.
Policies ==
  { [awt |-> <<10, 10>>, max |-> <<5, 10>>,  left |-> <<3, 10>>],
    [awt |-> <<7, 10>>,  max |-> <<20, 10>>, left |-> <<5, 10>>],
    [awt |-> <<10, 10>>, max |-> <<3, 10>>,  left |-> <<2, 10>>],
    [awt |-> <<8, 10>>,  max |-> <<4, 10>>,  left |-> <<20, 10>>] }
DefaultWeights == [awt |-> <<10, 10>>, max |-> <<5, 10>>, left |-> <<3, 10>>]

CostValues == {<<n, d>> : n \in 0..MaxVal, d \in 1..2}
CostNorms == {None} \cup {Some(Rat(n)) : n \in 0..MaxVal}

InitCost ==
  /\ c_pc = "call"
  /\ c_in \in [m : [avg_wait : CostValues, max_wait : 0..MaxVal, left_wait : CostValues],
               w : {DefaultWeights},
               norm_avg : CostNorms, norm_max : CostNorms, norm_left : CostNorms]
  /\ c_out = <<>>

Cost_Call ==
  /\ c_pc = "call"
  /\ c_pc' = "done"
  /\ c_out' = [terms |-> CostTerms(c_in.m, c_in.norm_avg, c_in.norm_max, c_in.norm_left),
               cost |-> cost(c_in.m, c_in.w.awt, c_in.w.max, c_in.w.left,
                             c_in.norm_avg, c_in.norm_max, c_in.norm_left)]
  /\ c_in' = c_in
  /\ UNCHANGED <<sessVars, rng, genVars, gridVars, compVars, auxVars>>

NextCost == Cost_Call

\* ------------------------------------------------------------ grid search
\* Leading values of ST_RANGE and of LT_RANGE that are searched.
NumST == 2
NumLT == 1

\* range(start, stop, step) for step > 0
PyRange(start, stop, step) ==
  [i \in 1..((stop - start + step - 1) \div step) |-> start + (i - 1) * step]
Leading(r, n) == SubSeq(r, 1, Min2(n, Len(r)))

ST_RANGE == Leading(PyRange(4, 19, 2), NumST)
LT_RANGE == Leading(PyRange(3, 13, 2), NumLT)
EXT_THRESHOLD_RANGE == <<1>>
MAX_EXT_RANGE == <<15>>
SKIP_LIMIT_RANGE == <<2>>

\* itertools.product(a, b, c, d, e): the rightmost range advances fastest.
Product(a, b, c, d, e) ==
  [k \in 1..(Len(a) * Len(b) * Len(c) * Len(d) * Len(e)) |->
     LET q5 == k - 1
         q4 == q5 \div Len(e)
         q3 == q4 \div Len(d)
         q2 == q3 \div Len(c)
         q1 == q2 \div Len(b)
     IN <<a[(q1 % Len(a)) + 1], b[(q2 % Len(b)) + 1], c[(q3 % Len(c)) + 1],
          d[(q4 % Len(d)) + 1], e[(q5 % Len(e)) + 1]>>]

search_space ==
  Product(ST_RANGE, LT_RANGE, EXT_THRESHOLD_RANGE, MAX_EXT_RANGE, SKIP_LIMIT_RANGE)

TimingParams(st, lt, eth, mext, skip) ==
  [green_st |-> st, green_lt |-> lt, yellow |-> 2, all_red |-> 3,
   ext_threshold |-> eth, max_ext |-> mext, skip_limit |-> skip]

\* float('inf'): above every quotient with a positive denominator
Inf == <<1, 0>>

\* What run_single_simulation may return: the metrics of a session in which
\* nothing departed, one vehicle departed, or two did, one after a left turn.
SimMetrics == {Metrics(<<>>, <<>>), Metrics(<<1>>, <<>>), Metrics(<<1, 3>>, <<3>>)}
\* global_norms, as calculate_global_norms may return them.
NormChoices == { <<Rat(0), Rat(0), Rat(0)>>,
                 <<Rat(1), Rat(2), Rat(2)>>,
                 <<Rat(2), Rat(4), Rat(3)>> }

Better_OrEqual(c, best) == ~RatLess(best, c)

\* cost < best_cost
Better(c, best) == RatLess(c, best)

InitGrid ==
  /\ rng \in {0, 5}
  /\ gs_pc = "start"
  /\ gs_scenario \in {UsedScenarios[i] : i \in 1..Len(UsedScenarios)}
  /\ gs_norms \in NormChoices
  /\ gs_weights \in {DefaultWeights}
  /\ gs_data = <<>>
  /\ gs_i = 1
  /\ best_cost = <<>>
  /\ best_params = <<>>
  /\ results = <<>>
  /\ gs_ret = <<>>

\* The head of grid_search, up to its loop.
GS_Start ==
  /\ gs_pc = "start"
  /\ LET d == create_command_list(gs_scenario, SeedArg(SEED), rng)
     IN /\ gs_data' = <<[commands |-> d.commands, name |-> d.name]>>
        /\ rng' = d.rng
  /\ best_cost' = Inf
  /\ best_params' = <<>>
  /\ results' = <<>>
  /\ gs_i' = 1
  /\ gs_pc' = "loop"
  /\ UNCHANGED <<gs_scenario, gs_norms, gs_weights, gs_ret>>
  /\ UNCHANGED <<sessVars, genVars, costVars, compVars, auxVars>>

\* One turn of the loop: a simulation run with the candidate, its cost, its
\* record, and the update of the best candidate.
GS_Eval ==
  /\ gs_pc = "loop"
  /\ gs_i <= Len(search_space)
  /\ \E metrics \in SimMetrics :
       LET c == search_space[gs_i]
           params == TimingParams(c[1], c[2], c[3], c[4], c[5])
           cst == cost(metrics, gs_weights.awt, gs_weights.max, gs_weights.left,
                       Some(gs_norms[1]), Some(gs_norms[2]), Some(gs_norms[3]))
       IN /\ results' = Append(results,
                          [st |-> c[1], lt |-> c[2], eth |-> c[3], mext |-> c[4],
                           skip |-> c[5], cost |-> cst,
                           avg_wait |-> metrics.avg_wait, max_wait |-> metrics.max_wait,
                           left_wait |-> metrics.left_wait,
                           throughput |-> metrics.throughput])
          /\ IF Better(cst, best_cost)
               THEN best_cost' = cst /\ best_params' = <<params>>
               ELSE best_cost' = best_cost /\ best_params' = best_params
  /\ gs_i' = gs_i + 1
  /\ UNCHANGED <<rng, gs_pc, gs_scenario, gs_norms, gs_weights, gs_data, gs_ret>>
  /\ UNCHANGED <<sessVars, genVars, costVars, compVars, auxVars>>

GS_Return ==
  /\ gs_pc = "loop"
  /\ gs_i > Len(search_space)
  /\ gs_ret' = <<[best_params |-> best_params, best_cost |-> best_cost,
                  results |-> results]>>
  /\ gs_pc' = "done"
  /\ UNCHANGED <<rng, gs_scenario, gs_norms, gs_weights, gs_data, gs_i,
                 best_cost, best_params, results>>
  /\ UNCHANGED <<sessVars, genVars, costVars, compVars, auxVars>>

NextGrid ==
  \/ GS_Start
  \/ GS_Eval
  \/ GS_Return

\* ------------------------------------------------------ compromise search
\* The scenarios argument of multi_scenario_optimization: one scenario, or two.
ScenarioLists == {<<SCENARIOS[6]>>, <<SCENARIOS[2], SCENARIOS[6]>>}

\* What run_single_simulation may return in the compromise search.
CompMetrics == {Metrics(<<>>, <<>>), Metrics(<<1, 3>>, <<3>>)}

MinByAvgCost_Last(rs) ==
  rs[CHOOSE k \in 1..Len(rs) :
       /\ \A j \in 1..Len(rs) : ~RatLess(rs[j].avg_cost, rs[k].avg_cost)
       /\ \A j \in (k + 1)..Len(rs) : RatLess(rs[k].avg_cost, rs[j].avg_cost)]

\* min(compromise_results, key=lambda x: x['avg_cost']): the scan keeps the
\* element it holds unless a later one is smaller.
RECURSIVE MinScan(_, _, _)
MinScan(rs, k, held) ==
  IF k > Len(rs) THEN held
  ELSE MinScan(rs, k + 1, IF RatLess(rs[k].avg_cost, held.avg_cost) THEN rs[k] ELSE held)

MinByAvgCost(rs) == MinScan(rs, 2, rs[1])

InitComp ==
  /\ rng = 5
  /\ cp_pc = "loop"
  /\ cp_scenarios \in ScenarioLists
  /\ cp_norms \in {<<Rat(1), Rat(2), Rat(2)>>, <<Rat(2), Rat(4), Rat(3)>>}
  /\ cp_weights \in {DefaultWeights}
  /\ cp_i = 1
  /\ cp_s = 1
  /\ cp_data = <<>>
  /\ total_cost = Rat(0)
  /\ scenario_costs = <<>>
  /\ compromise_results = <<>>
  /\ cp_ret = <<>>

\* One scenario for the candidate at hand: a fresh command list from SEED,
\* a simulation run, its cost, added to the total and kept by scenario name.
Comp_Eval ==
  /\ cp_pc = "loop"
  /\ cp_i <= Len(search_space)
  /\ cp_s <= Len(cp_scenarios)
  /\ LET scenario == cp_scenarios[cp_s]
         d == create_command_list(scenario, SeedArg(SEED), rng)
     IN /\ cp_data' = <<[commands |-> d.commands, name |-> d.name]>>
        /\ rng' = d.rng
        /\ \E metrics \in CompMetrics :
             LET cst == cost(metrics, cp_weights.awt, cp_weights.max, cp_weights.left,
                             Some(cp_norms[1]), Some(cp_norms[2]), Some(cp_norms[3]))
             IN /\ total_cost' = RatAdd(total_cost, cst)
                /\ scenario_costs' = DictPut(scenario_costs, scenario.name, cst)
  /\ cp_s' = cp_s + 1
  /\ UNCHANGED <<cp_pc, cp_scenarios, cp_norms, cp_weights, cp_i, compromise_results, cp_ret>>
  /\ UNCHANGED <<sessVars, genVars, costVars, gridVars, auxVars>>

\* The end of a candidate's turn: its record, and the reset for the next.
Comp_Record ==
  /\ cp_pc = "loop"
  /\ cp_i <= Len(search_space)
  /\ cp_s > Len(cp_scenarios)
  /\ LET c == search_space[cp_i]
     IN compromise_results' = Append(compromise_results,
          [st |-> c[1], lt |-> c[2], eth |-> c[3], mext |-> c[4], skip |-> c[5],
           avg_cost |-> RatDiv(total_cost, Rat(Len(cp_scenarios))),
           total_cost |-> total_cost,
           scenario_costs |-> scenario_costs])
  /\ total_cost' = Rat(0)
  /\ scenario_costs' = <<>>
  /\ cp_s' = 1
  /\ cp_i' = cp_i + 1
  /\ UNCHANGED <<rng, cp_pc, cp_scenarios, cp_norms, cp_weights, cp_data, cp_ret>>
  /\ UNCHANGED <<sessVars, genVars, costVars, gridVars, auxVars>>

Comp_Return ==
  /\ cp_pc = "loop"
  /\ cp_i > Len(search_space)
  /\ cp_ret' = <<[compromise |-> MinByAvgCost(compromise_results),
                  all_compromises |-> compromise_results,
                  global_norms |-> cp_norms]>>
  /\ cp_pc' = "done"
  /\ UNCHANGED <<rng, cp_scenarios, cp_norms, cp_weights, cp_i, cp_s, cp_data,
                 total_cost, scenario_costs, compromise_results>>
  /\ UNCHANGED <<sessVars, genVars, costVars, gridVars, auxVars>>

NextComp ==
  \/ Comp_Eval
  \/ Comp_Record
  \/ Comp_Return

\* ------------------------------------------ multi_scenario_optimization
\* The scenarios argument of multi_scenario_optimization: a list of one
\* scenario, so that the records of a whole run stay few.
OptScenarioLists == {<<SCENARIOS[2]>>, <<SCENARIOS[6]>>}

InitOpt ==
  /\ rng = 5
  /\ mo_pc = "norms"
  /\ mo_scenarios \in OptScenarioLists
  /\ global_norms = <<>>
  /\ norm_calls = 0
  /\ mo_k = 1
  /\ scenario_optima = <<>>

IdleOpt ==
  /\ mo_pc = "idle"
  /\ mo_scenarios = <<>>
  /\ global_norms = <<>>
  /\ norm_calls = 0
  /\ mo_k = 0
  /\ scenario_optima = <<>>

UnpackNorms_Swapped(norms) == <<norms[2], norms[1], norms[3]>>

\* norm_avg, norm_max, norm_left = global_norms
UnpackNorms(norms) == <<norms[1], norms[2], norms[3]>>

\* global_norms = calculate_global_norms(scenarios): the percentiles of what
\* its simulation runs measured; its last create_command_list left the
\* generator seeded from SEED.
MO_Norms ==
  /\ mo_pc = "norms"
  /\ \E n \in NormChoices : global_norms' = <<n>>
  /\ norm_calls' = norm_calls + 1
  /\ rng' = create_command_list(mo_scenarios[Len(mo_scenarios)], SeedArg(SEED), rng).rng
  /\ mo_k' = 1
  /\ mo_pc' = "optima"
  /\ UNCHANGED <<mo_scenarios, scenario_optima>>
  /\ UNCHANGED <<sessVars, genVars, costVars, gridVars, compVars, turnVars, fileVars, normVars>>

\* grid_search(scenario, global_norms, weights) is called for the next scenario.
MO_CallGrid ==
  /\ mo_pc = "optima"
  /\ gs_pc = "idle"
  /\ mo_k <= Len(mo_scenarios)
  /\ gs_pc' = "start"
  /\ gs_scenario' = mo_scenarios[mo_k]
  /\ gs_norms' = global_norms[1]
  /\ gs_weights' = DefaultWeights
  /\ gs_i' = 1
  /\ UNCHANGED <<gs_data, best_cost, best_params, results, gs_ret>>
  /\ UNCHANGED <<sessVars, rng, genVars, costVars, compVars, auxVars>>

\* The call returned: its optimum is kept under the scenario's name.
MO_GridReturned ==
  /\ mo_pc = "optima"
  /\ gs_pc = "done"
  /\ scenario_optima' = DictPut(scenario_optima, gs_scenario.name,
                                [params |-> gs_ret[1].best_params[1],
                                 cost |-> gs_ret[1].best_cost])
  /\ mo_k' = mo_k + 1
  /\ gs_pc' = "idle"
  /\ gs_scenario' = <<>>
  /\ gs_norms' = <<>>
  /\ gs_weights' = <<>>
  /\ gs_data' = <<>>
  /\ gs_i' = 0
  /\ best_cost' = <<>>
  /\ best_params' = <<>>
  /\ results' = <<>>
  /\ gs_ret' = <<>>
  /\ UNCHANGED <<mo_pc, mo_scenarios, global_norms, norm_calls>>
  /\ UNCHANGED <<sessVars, rng, genVars, costVars, compVars, turnVars, fileVars, normVars>>

\* The compromise search begins, with the norms unpacked at the head of
\* multi_scenario_optimization.
MO_StartCompromise ==
  /\ mo_pc = "optima"
  /\ gs_pc = "idle"
  /\ mo_k > Len(mo_scenarios)
  /\ mo_pc' = "compromise"
  /\ cp_pc' = "loop"
  /\ cp_scenarios' = mo_scenarios
  /\ cp_norms' = UnpackNorms(global_norms[1])
  /\ cp_weights' = DefaultWeights
  /\ cp_i' = 1
  /\ cp_s' = 1
  /\ total_cost' = Rat(0)
  /\ UNCHANGED <<cp_data, scenario_costs, compromise_results, cp_ret>>
  /\ UNCHANGED <<mo_scenarios, global_norms, norm_calls, mo_k, scenario_optima>>
  /\ UNCHANGED <<sessVars, rng, genVars, costVars, gridVars, turnVars, fileVars, normVars>>

NextOpt ==
  \/ MO_Norms
  \/ MO_CallGrid
  \/ GS_Start
  \/ GS_Eval
  \/ GS_Return
  \/ MO_GridReturned
  \/ MO_StartCompromise
  \/ Comp_Eval
  \/ Comp_Record
  \/ Comp_Return

\* ------------------------------------------------ calculate_global_norms
\* The scenarios argument of calculate_global_norms: no scenario, one, or two.
NormScenarioLists ==
  ScenarioLists \cup OptScenarioLists \cup {<<>>, <<SCENARIOS[6], SCENARIOS[2]>>}

\* a sorted, lowest first
RECURSIVE Insert(_, _)
Insert(a, x) ==
  IF a = <<>> THEN <<x>>
  ELSE IF RatLess(x, a[1]) THEN <<x>> \o a
  ELSE <<a[1]>> \o Insert(Tail(a), x)
RECURSIVE Sorted(_)
Sorted(a) == IF a = <<>> THEN <<>> ELSE Insert(Sorted(Tail(a)), a[1])

\* np.percentile(a, 80) of a non-empty a: the value at place 0.8 * (n - 1) of
\* the sorted sample, between its two neighbours in proportion.
Percentile80(a) ==
  LET x == Sorted(a)
      h == 4 * (Len(a) - 1)
      lo == (h \div 5) + 1
      m == h % 5
  IN IF m = 0 THEN Lowest(x[lo])
     ELSE RatAdd(RatMul(<<5 - m, 5>>, x[lo]), RatMul(<<m, 5>>, x[lo + 1]))

\* np.percentile(a, 80) if a else fallback
NormOf(a, fallback) == IF a # <<>> THEN Percentile80(a) ELSE Rat(fallback)

NewIterator_Reused(pos) == pos

\* current_search = itertools.product(...): an iterator at its first element,
\* whatever the place pos of the iterator the name held before.
NewIterator(pos) == 1

InitNorm ==
  /\ rng \in {0, 5}
  /\ cn_pc = "outer"
  /\ cn_scenarios \in NormScenarioLists
  /\ cn_s = 1
  /\ cn_i = 1
  /\ cn_data = <<>>
  /\ all_avg = <<>>
  /\ all_max = <<>>
  /\ all_left = <<>>
  /\ cn_runs = <<>>
  /\ cn_ret = <<>>

IdleNorm ==
  /\ cn_pc = "idle"
  /\ cn_scenarios = <<>>
  /\ cn_s = 0
  /\ cn_i = 0
  /\ cn_data = <<>>
  /\ all_avg = <<>>
  /\ all_max = <<>>
  /\ all_left = <<>>
  /\ cn_runs = <<>>
  /\ cn_ret = <<>>

\* The outer loop takes the next scenario: its command list from SEED and a
\* new iterator over the grid.
CN_Scenario ==
  /\ cn_pc = "outer"
  /\ cn_s <= Len(cn_scenarios)
  /\ LET d == create_command_list(cn_scenarios[cn_s], SeedArg(SEED), rng)
     IN /\ cn_data' = <<[commands |-> d.commands, name |-> d.name]>>
        /\ rng' = d.rng
  /\ cn_i' = NewIterator(cn_i)
  /\ cn_pc' = "inner"
  /\ UNCHANGED <<cn_scenarios, cn_s, all_avg, all_max, all_left, cn_runs, cn_ret>>
  /\ UNCHANGED <<sessVars, genVars, costVars, gridVars, compVars, turnVars, fileVars,
                 optVars>>

\* One pass of the inner loop: the candidate is simulated and its three
\* measurements are pooled, or the simulation raises and the call ends.
CN_Run ==
  /\ cn_pc = "inner"
  /\ cn_i <= Len(search_space)
  /\ LET c == search_space[cn_i]
         params == TimingParams(c[1], c[2], c[3], c[4], c[5])
     IN \/ \E metrics \in CompMetrics :
             /\ all_avg' = Append(all_avg, metrics.avg_wait)
             /\ all_max' = Append(all_max, Rat(metrics.max_wait))
             /\ all_left' = Append(all_left, metrics.left_wait)
             /\ cn_runs' = Append(cn_runs,
                  [scenario |-> cn_data[1].name, commands |-> cn_data[1].commands,
                   st |-> params.green_st, lt |-> params.green_lt,
                   eth |-> params.ext_threshold, mext |-> params.max_ext,
                   skip |-> params.skip_limit, metrics |-> metrics])
             /\ cn_i' = cn_i + 1
             /\ UNCHANGED cn_pc
        \/ /\ cn_pc' = "raised"
           /\ UNCHANGED <<cn_i, all_avg, all_max, all_left, cn_runs>>
  /\ UNCHANGED <<cn_scenarios, cn_s, cn_data, cn_ret>>
  /\ UNCHANGED <<sessVars, rng, genVars, costVars, gridVars, compVars, turnVars,
                 fileVars, optVars>>

\* The iterator is exhausted: the inner loop ends, the outer loop goes on.
CN_EndScenario ==
  /\ cn_pc = "inner"
  /\ cn_i > Len(search_space)
  /\ cn_s' = cn_s + 1
  /\ cn_pc' = "outer"
  /\ UNCHANGED <<cn_scenarios, cn_i, cn_data, all_avg, all_max, all_left, cn_runs,
                 cn_ret>>
  /\ UNCHANGED <<sessVars, rng, genVars, costVars, gridVars, compVars, turnVars,
                 fileVars, optVars>>

\* After the last scenario: the three percentiles are returned.
CN_Return ==
  /\ cn_pc = "outer"
  /\ cn_s > Len(cn_scenarios)
  /\ cn_ret' = <<<<NormOf(all_avg, 50), NormOf(all_max, 200), NormOf(all_left, 60)>>>>
  /\ cn_pc' = "done"
  /\ UNCHANGED <<cn_scenarios, cn_s, cn_i, cn_data, all_avg, all_max, all_left,
                 cn_runs>>
  /\ UNCHANGED <<sessVars, rng, genVars, costVars, gridVars, compVars, turnVars,
                 fileVars, optVars>>

NextNorm == CN_Scenario \/ CN_Run \/ CN_EndScenario \/ CN_Return

\* ------------------------------------------- run_simulation on a file
\* Commands that lack a key or name a road that is not in ROAD_MAP.
BadCmds ==
  { [vehicleId |-> <<1>>, startRoad |-> "north", endRoad |-> "east"],
    [type |-> "addVehicle", startRoad |-> "north", endRoad |-> "east"],
    [type |-> "addVehicle", vehicleId |-> <<1>>, endRoad |-> "east"],
    [type |-> "addVehicle", vehicleId |-> <<1>>, startRoad |-> "up", endRoad |-> "east"] }

\* The command lists of the files tried: well-formed ones, and well-formed
\* ones followed by one bad command.
FileCommandLists ==
  {l \in CommandLists : Len(l) < MaxCmds}
    \cup {Append(l, b) : l \in {x \in CommandLists : Len(x) < MaxCmds}, b \in BadCmds}

InitFile ==
  /\ mode = "replay"
  /\ binary_exists \in BOOLEAN
  /\ file_parses \in BOOLEAN
  /\ commands \in IF file_parses THEN FileCommandLists ELSE {<<>>}
  /\ pc = "load"
  /\ cmd_i = 1
  /\ current_step = 0
  /\ arrival_times = <<>>
  /\ wait_times = <<>>
  /\ left_wait_times = <<>>
  /\ wait_ids = <<>>
  /\ header_len = 0
  /\ v_count = 0
  /\ raw_len = 0
  /\ sent = <<>>
  /\ eng = "none"
  /\ result = NoResult

\* with open(input_file) as f: scenario = json.load(f)
LoadFile ==
  /\ pc = "load"
  /\ IF file_parses
       THEN pc' = "start" /\ result' = result
       ELSE pc' = "failed" /\ result' = Raised("JSONDecodeError")
  /\ UNCHANGED <<mode, binary_exists, commands, cmd_i, current_step, arrival_times,
                 wait_times, left_wait_times, wait_ids, header_len, v_count, raw_len,
                 sent, eng>>
  /\ UNCHANGED <<rng, genVars, costVars, gridVars, compVars, auxVars>>

\* The replay loop at a command that is not well-formed: cmd["type"],
\* cmd["vehicleId"], cmd["startRoad"], cmd["endRoad"] or the lookup of a road
\* raises; the id, when there is one, is in arrival_times by then.
CommandError ==
  /\ pc = "replay"
  /\ ~WellFormed(commands[cmd_i])
  /\ LET cmd == commands[cmd_i] IN
       /\ arrival_times' =
            IF HasKey(cmd, "type") /\ HasKey(cmd, "vehicleId")
              THEN DictPut(arrival_times, cmd.vehicleId, current_step)
              ELSE arrival_times
       /\ result' =
            Raised(IF mode = "single" /\ HasKey(cmd, "type") /\ HasKey(cmd, "vehicleId")
                      /\ HasKey(cmd, "startRoad") /\ HasKey(cmd, "endRoad")
                     THEN "ValueError" ELSE "KeyError")
  /\ pc' = "failed"
  /\ UNCHANGED <<mode, binary_exists, commands, cmd_i, current_step, wait_times,
                 left_wait_times, wait_ids, header_len, v_count, raw_len, sent, eng>>
  /\ UNCHANGED <<rng, genVars, costVars, gridVars, compVars, auxVars>>

\* ------------------------------------------------- get_left_turn_target
\* Applications of get_left_turn_target in a row that are followed.
MaxTurns == 25

InitTurn ==
  /\ t_road \in {ROADS[i] : i \in 1..Len(ROADS)}
  /\ t_val = t_road
  /\ t_n = 0

IdleTurn ==
  /\ t_road = "north"
  /\ t_val = "north"
  /\ t_n = 0

\* t_val = get_left_turn_target(t_val)
Turn_Apply ==
  /\ t_n < MaxTurns
  /\ t_val' = get_left_turn_target(t_val)
  /\ t_n' = t_n + 1
  /\ UNCHANGED t_road
  /\ UNCHANGED <<sessVars, rng, genVars, costVars, gridVars, compVars, fileVars, optVars, normVars>>

NextTurn == Turn_Apply

IdleFile == file_parses = TRUE

IdleAux == IdleTurn /\ IdleFile /\ IdleOpt /\ IdleNorm

SessionStep ==
  \/ Spawn
  \/ SendConfig
  \/ AddVehicle
  \/ SendStep
  \/ ReadHeader
  \/ ReadIds
  \/ SendStop
  \/ WaitExit

Init == InitSession /\ rng = 0 /\ IdleGen /\ IdleCost /\ IdleGrid /\ IdleComp /\ IdleAux

Next ==
  \/ SessionStep
  \/ EngineHang
  \/ EngineExit

NextFile ==
  \/ LoadFile
  \/ SessionStep
  \/ CommandError
  \/ EngineHang
  \/ EngineExit

Spec == Init /\ [][Next]_vars

FairSpec == Init /\ [][Next]_vars /\ WF_vars(SessionStep)

GenInit == IdleSession /\ InitGen /\ IdleCost /\ IdleGrid /\ IdleComp /\ IdleAux

GenSpec == GenInit /\ [][NextGen]_vars

CostInit == IdleSession /\ rng = 0 /\ IdleGen /\ InitCost /\ IdleGrid /\ IdleComp /\ IdleAux

CostSpec == CostInit /\ [][NextCost]_vars

GridInit == IdleSession /\ IdleGen /\ IdleCost /\ InitGrid /\ IdleComp /\ IdleAux

GridSpec == GridInit /\ [][NextGrid]_vars

CompInit == IdleSession /\ IdleGen /\ IdleCost /\ IdleGrid /\ InitComp /\ IdleAux

CompSpec == CompInit /\ [][NextComp]_vars

TurnInit ==
  /\ IdleSession /\ rng = 0 /\ IdleGen /\ IdleCost /\ IdleGrid /\ IdleComp
  /\ InitTurn /\ IdleFile /\ IdleOpt /\ IdleNorm

TurnSpec == TurnInit /\ [][NextTurn]_vars

FileInit ==
  /\ InitFile /\ rng = 0 /\ IdleGen /\ IdleCost /\ IdleGrid /\ IdleComp /\ IdleTurn
  /\ IdleOpt /\ IdleNorm

FileSpec == FileInit /\ [][NextFile]_vars

OptInit ==
  /\ IdleSession /\ IdleGen /\ IdleCost /\ IdleGrid /\ IdleComp /\ IdleTurn /\ IdleFile
  /\ InitOpt /\ IdleNorm

OptSpec == OptInit /\ [][NextOpt]_vars

NormInit ==
  /\ IdleSession /\ IdleGen /\ IdleCost /\ IdleGrid /\ IdleComp /\ IdleTurn /\ IdleFile
  /\ IdleOpt /\ InitNorm

NormSpec == NormInit /\ [][NextNorm]_vars

\* ------------------------------------------------------------ the claims
StepsIn(s, n) == Cardinality({j \in 1..n : s[j].tag = CMD_STEP})
StepSent == \E j \in 1..Len(sent) : sent[j].tag = CMD_STEP

\* The last STEP response was cut short in its header.
ShortSeen == /\ StepSent
             /\ pc # "readHeader"
             /\ header_len < HEADER_SIZE

\* C1: a STEP response whose header is shorter than 11 bytes ends the session:
\* the session leaves the replay loop for its cleanup, sends no further
\* ADD_VEHICLE or STEP, and returns metrics of the samples it has.
C1_ShortHeaderEndsSession ==
  ShortSeen =>
    /\ pc \in {"cleanup", "waitExit", "returned"}
    /\ sent[Len(sent)].tag \in {CMD_STEP, CMD_STOP}
    /\ pc = "returned" =>
         /\ result.kind = "metrics"
         /\ result.throughput = Len(wait_times)

\* C2: when the bounded wait after STOP elapses and the engine has not exited,
\* the process is killed and the close returns without raising.
C2_CloseTimeoutKills ==
  [][(pc = "waitExit" /\ pc' # "waitExit" /\ eng # "exited")
       => (eng' = "killed" /\ pc' = "returned")]_vars

\* C3: whatever the engine does, every simulation run eventually returns or
\* fails to its caller.
C3_RunEventuallyEnds == <>(pc \in {"returned", "failed"})

\* The replay loop has ended: the command list is exhausted, or
\* run_single_simulation broke out of it on a short header.
ReplayEnded == \/ cmd_i > Len(commands)
               \/ mode = "single" /\ header_len < HEADER_SIZE /\ StepSent

IsReplayMsg(m) == m.tag \in {CMD_ADD_VEHICLE, CMD_STEP}

\* C4: the messages written follow the lifecycle order: one CONFIG first,
\* then the ADD_VEHICLE and STEP messages of the commands in list order with
\* none skipped, then at most one STOP, written only after the replay ended
\* and followed by nothing.
C4_LifecycleOrder ==
  /\ pc \notin {"start", "config", "failed"} => Len(sent) >= 1
  /\ \A k \in 1..Len(sent) :
       /\ (sent[k].tag = CMD_CONFIG) <=> (k = 1)
       /\ sent[k].tag = CMD_STOP => (k = Len(sent) /\ ReplayEnded)
       /\ IsReplayMsg(sent[k]) =>
            /\ sent[k].cmd = k - 1
            /\ sent[k].cmd \in 1..Len(commands)
            /\ LET c == commands[sent[k].cmd] IN
                 IF sent[k].tag = CMD_STEP THEN c.type = "step"
                 ELSE /\ c.type = "addVehicle"
                      /\ c.vehicleId = sent[k].vehicleId
                      /\ ROADS[sent[k].start_id + 1] = c.startRoad
                      /\ ROADS[sent[k].end_id + 1] = c.endRoad

C4_Witness ==
  /\ pc = "returned"
  /\ Len(sent) = 4
  /\ sent[1].tag = CMD_CONFIG
  /\ sent[2].tag = CMD_ADD_VEHICLE
  /\ sent[3].tag = CMD_STEP
  /\ sent[4].tag = CMD_STOP

\* A STEP was written and its response has not been received in full.
Outstanding ==
  \/ pc \in {"readHeader", "readIds"}
  \/ /\ StepSent
     /\ \/ header_len < HEADER_SIZE
        \/ v_count > 0 /\ raw_len < v_count * ID_SIZE

\* C5: STEP is strictly request/response: no ADD_VEHICLE or STEP is written
\* while the response to the last STEP is not received in full, and the ids
\* of a response are processed only when all of them were received.
C5_StepRequestResponse ==
  [][/\ (Len(sent') > Len(sent) /\ IsReplayMsg(sent'[Len(sent')])) => ~Outstanding
     /\ (wait_times' # wait_times) => (raw_len' = v_count * ID_SIZE)]_vars

\* The ADD_VEHICLE messages for id v written before position n of sent.
AddsBefore(v, n) ==
  {j \in 1..(n - 1) : sent[j].tag = CMD_ADD_VEHICLE /\ sent[j].vehicleId = v}

\* C10: every wait sample equals the number of STEPs sent up to the STEP whose
\* response reported the vehicle, minus the arrival step transmitted in the
\* vehicle's (latest) ADD_VEHICLE, which is the number of STEPs sent before
\* that message; and it is >= 0.
C10_WaitIsDepartureMinusArrival ==
  /\ Len(wait_ids) = Len(wait_times)
  /\ \A k \in 1..Len(wait_times) :
       LET e == wait_ids[k]
           A == AddsBefore(e.id, e.at)
       IN /\ A # {}
          /\ sent[e.at].tag = CMD_STEP
          /\ LET a == CHOOSE j \in A : \A i \in A : i <= j
             IN /\ sent[a].arrival = StepsIn(sent, a)
                /\ wait_times[k] = StepsIn(sent, e.at) - sent[a].arrival
                /\ wait_times[k] >= 0

C10_Witness ==
  /\ Len(wait_times) >= 2
  /\ wait_times[1] = 1
  /\ wait_times[2] = 2

\* The place of value v in range r, and the place of a record's candidate in
\* the Cartesian product of the ranges taken with ST outermost, then LT,
\* EXT_THRESHOLD, MAX_EXT and SKIP_LIMIT innermost.
PlaceIn(r, v) == CHOOSE i \in 1..Len(r) : r[i] = v
InRange(r, v) == \E i \in 1..Len(r) : r[i] = v
NumCandidates ==
  Len(ST_RANGE) * Len(LT_RANGE) * Len(EXT_THRESHOLD_RANGE) * Len(MAX_EXT_RANGE)
    * Len(SKIP_LIMIT_RANGE)
IsCandidate(rec) ==
  /\ InRange(ST_RANGE, rec.st)
  /\ InRange(LT_RANGE, rec.lt)
  /\ InRange(EXT_THRESHOLD_RANGE, rec.eth)
  /\ InRange(MAX_EXT_RANGE, rec.mext)
  /\ InRange(SKIP_LIMIT_RANGE, rec.skip)
CandidateRank(rec) ==
  ((((PlaceIn(ST_RANGE, rec.st) - 1) * Len(LT_RANGE)
      + (PlaceIn(LT_RANGE, rec.lt) - 1)) * Len(EXT_THRESHOLD_RANGE)
      + (PlaceIn(EXT_THRESHOLD_RANGE, rec.eth) - 1)) * Len(MAX_EXT_RANGE)
      + (PlaceIn(MAX_EXT_RANGE, rec.mext) - 1)) * Len(SKIP_LIMIT_RANGE)
      + PlaceIn(SKIP_LIMIT_RANGE, rec.skip)
\* rs holds every candidate exactly once, in iteration order.
EveryCandidateOnce(rs) ==
  /\ Len(rs) = NumCandidates
  /\ \A k \in 1..Len(rs) : IsCandidate(rs[k]) /\ CandidateRank(rs[k]) = k

\* C6: grid_search returns as best_cost the minimum cost over every candidate
\* of the Cartesian product of the ranges, as best_params the first candidate
\* in iteration order that attains it, and in results one record for every
\* candidate, each evaluated exactly once.
C6_GridSearchFirstMinimum ==
  gs_pc = "done" =>
    LET ret == gs_ret[1]
        rs == ret.results
    IN /\ EveryCandidateOnce(rs)
       /\ \E k \in 1..Len(rs) :
            /\ rs[k].cost = ret.best_cost
            /\ \A j \in 1..Len(rs) : ~RatLess(rs[j].cost, ret.best_cost)
            /\ \A j \in 1..(k - 1) : RatLess(ret.best_cost, rs[j].cost)
            /\ ret.best_params =
                 <<TimingParams(rs[k].st, rs[k].lt, rs[k].eth, rs[k].mext, rs[k].skip)>>

\* A search that ended with two candidates tied for the minimum, at a cost
\* above 0: the earlier one is returned.
C6_Witness ==
  /\ gs_pc = "done"
  /\ Len(gs_ret[1].results) >= 2
  /\ RatLess(Rat(0), gs_ret[1].best_cost)
  /\ \E j, k \in 1..Len(gs_ret[1].results) :
       /\ j < k
       /\ gs_ret[1].results[j].cost = gs_ret[1].best_cost
       /\ gs_ret[1].results[k].cost = gs_ret[1].best_cost
       /\ gs_ret[1].best_params[1].green_st = gs_ret[1].results[j].st
       /\ gs_ret[1].best_params[1].green_lt = gs_ret[1].results[j].lt

ScenarioNames(scs) == {scs[i].name : i \in 1..Len(scs)}
RECURSIVE SumCosts(_, _, _)
SumCosts(scs, d, i) ==
  IF i > Len(scs) THEN Rat(0) ELSE RatAdd(d[scs[i].name], SumCosts(scs, d, i + 1))

\* C7: multi_scenario_optimization returns as compromise the candidate whose
\* cost averaged over the scenarios is minimal over all grid candidates, the
\* first such candidate on a tie; every command sequence it runs is the one
\* derived from SEED for its scenario, whatever the generator's state was
\* before;
\* the winner's record holds one cost for every scenario, and their sum
\* divided by the number of scenarios is its avg_cost.
C7_CompromiseFirstMinimum ==
  /\ (cp_pc = "loop" /\ cp_data # <<>>) =>
       \E i \in 1..Len(cp_scenarios) :
         /\ cp_scenarios[i].name = cp_data[1].name
         /\ cp_data[1].commands =
              GenLoop(cp_scenarios[i], 0, 1, random_seed(SEED), 0, <<>>, <<>>).commands
  /\ cp_pc = "done" =>
       LET ret == cp_ret[1]
           rs == ret.all_compromises
           best == ret.compromise
       IN /\ EveryCandidateOnce(rs)
          /\ \E k \in 1..Len(rs) :
               /\ rs[k] = best
               /\ \A j \in 1..Len(rs) : ~RatLess(rs[j].avg_cost, best.avg_cost)
               /\ \A j \in 1..(k - 1) : RatLess(best.avg_cost, rs[j].avg_cost)
          /\ DOMAIN best.scenario_costs = ScenarioNames(cp_scenarios)
          /\ RatEq(RatMul(best.avg_cost, Rat(Len(cp_scenarios))),
                   SumCosts(cp_scenarios, best.scenario_costs, 1))

\* Two scenarios, and two candidates that tie for the least average with
\* different costs scenario by scenario.
C7_Witness ==
  /\ cp_pc = "done"
  /\ Len(cp_scenarios) = 2
  /\ \E j, k \in 1..Len(cp_ret[1].all_compromises) :
       /\ j < k
       /\ cp_ret[1].compromise = cp_ret[1].all_compromises[j]
       /\ cp_ret[1].all_compromises[k].avg_cost = cp_ret[1].compromise.avg_cost
       /\ cp_ret[1].all_compromises[k].scenario_costs # cp_ret[1].compromise.scenario_costs
       /\ RatLess(Rat(0), cp_ret[1].compromise.avg_cost)

AllNormsGiven == c_in.norm_avg.some /\ c_in.norm_max.some /\ c_in.norm_left.some
\* The raw metrics and the baselines of the call, term by term.
CostRaw == <<c_in.m.avg_wait, Rat(c_in.m.max_wait), c_in.m.left_wait>>
CostBase == <<c_in.norm_avg.val, c_in.norm_max.val, c_in.norm_left.val>>
WeightedSum(w, t) ==
  RatAdd(RatAdd(RatMul(w.awt, t[1]), RatMul(w.max, t[2])), RatMul(w.left, t[3]))

\* C9: with all three baselines supplied, for every non-negative baseline,
\* each normalized term lies in [0,1] and is exactly 1 whenever the raw metric
\* is equal to or greater than its baseline, and the cost is the weighted sum
\* of the terms.
C9_TermsNormalized_AsStated ==
  (c_pc = "done" /\ AllNormsGiven) =>
    /\ \A i \in 1..3 :
         /\ ~RatLess(c_out.terms[i], Rat(0))
         /\ ~RatLess(Rat(1), c_out.terms[i])
         /\ ~RatLess(CostRaw[i], CostBase[i]) => RatEq(c_out.terms[i], Rat(1))
    /\ RatEq(c_out.cost, WeightedSum(c_in.w, c_out.terms))

\* What cost computes: each normalized term lies in [0,1]; for a baseline > 0
\* it is raw / baseline below the baseline and exactly 1 from the baseline on;
\* for a baseline of 0 it is 0; the cost is the weighted sum of the terms.
CostTermsAsComputed ==
  (c_pc = "done" /\ AllNormsGiven) =>
    /\ \A i \in 1..3 :
         /\ ~RatLess(c_out.terms[i], Rat(0))
         /\ ~RatLess(Rat(1), c_out.terms[i])
         /\ (RatLess(Rat(0), CostBase[i]) /\ ~RatLess(CostRaw[i], CostBase[i]))
              => RatEq(c_out.terms[i], Rat(1))
         /\ (RatLess(Rat(0), CostBase[i]) /\ RatLess(CostRaw[i], CostBase[i]))
              => RatEq(RatMul(c_out.terms[i], CostBase[i]), CostRaw[i])
         /\ RatEq(CostBase[i], Rat(0)) => RatEq(c_out.terms[i], Rat(0))
    /\ RatEq(c_out.cost, WeightedSum(c_in.w, c_out.terms))

\* A call with a metric above its baseline, one below it and a baseline of 0.
CostTermsWitness ==
  /\ c_pc = "done"
  /\ AllNormsGiven
  /\ RatLess(Rat(0), CostBase[1]) /\ RatLess(CostBase[1], CostRaw[1])
  /\ RatEq(c_out.terms[1], Rat(1))
  /\ RatLess(Rat(0), CostRaw[2]) /\ RatLess(CostRaw[2], CostBase[2])
  /\ RatEq(CostBase[3], Rat(0)) /\ RatLess(Rat(0), CostRaw[3])


RoadSet == {ROADS[i] : i \in 1..Len(ROADS)}
\* The road reached from r after n left turns in the cycle
\* north -> east -> south -> west -> north.
RECURSIVE LeftTurns(_, _)
LeftTurns(r, n) ==
  IF n = 0 THEN r
  ELSE LeftTurns(CASE r = "north" -> "east" [] r = "east" -> "south"
                   [] r = "south" -> "west" [] r = "west" -> "north", n - 1)

\* C13: get_left_turn_target is a cyclic successor of period 4 over north,
\* east, south, west: it maps north -> east -> south -> west -> north, never
\* maps a road to itself, and four applications in a row return the road
\* they started from.
C13_LeftTurnCycle ==
  /\ t_val \in RoadSet
  /\ t_val = LeftTurns(t_road, t_n % 4)
  /\ t_n % 4 = 0 => t_val = t_road
  /\ t_n % 4 # 0 => t_val # t_road
  /\ get_left_turn_target(t_val) # t_val

\* Four applications from west, back at west.
C13_Witness ==
  /\ t_road = "west"
  /\ t_n = 4
  /\ t_val = "west"


\* The AddVehicle commands of a command list, by position.
AddsOf(cs) == {i \in 1..Len(cs) : cs[i].type = "addVehicle"}
StepsOf(cs) == {i \in 1..Len(cs) : cs[i].type = "step"}
GenScenario == UsedScenarios[gen_last.key[2]]

\* C12: in every command sequence that create_command_list produces no two
\* AddVehicle commands carry the same vehicleId.
C12_UniqueVehicleIds ==
  gen_last.called =>
    \A i, j \in AddsOf(gen_last.commands) :
      i # j => gen_last.commands[i].vehicleId # gen_last.commands[j].vehicleId

\* A sequence with three vehicles, two of them from the same road.
C12_Witness ==
  /\ gen_last.called
  /\ Cardinality(AddsOf(gen_last.commands)) >= 3
  /\ \E i, j \in AddsOf(gen_last.commands) :
       /\ i < j
       /\ gen_last.commands[i].startRoad = gen_last.commands[j].startRoad

\* Place of a road in the order north, east, south, west.
RoadRank(r) == CASE r = "north" -> 1 [] r = "east" -> 2
                 [] r = "south" -> 3 [] r = "west" -> 4

\* C18: the command sequence for a scenario of n steps holds exactly n Step
\* commands and ends with one; the AddVehicle commands between two
\* consecutive Steps (and before the first) come from different start roads
\* in the order north, east, south, west, so there are at most four.
C18_StepStructure ==
  gen_last.called =>
    LET cs == gen_last.commands IN
      /\ \A i \in 1..Len(cs) : cs[i].type \in {"addVehicle", "step"}
      /\ Cardinality(StepsOf(cs)) = GenScenario.steps
      /\ GenScenario.steps > 0 => (cs # <<>> /\ cs[Len(cs)].type = "step")
      /\ \A i, j \in AddsOf(cs) :
           (i < j /\ \A k \in i..j : cs[k].type # "step")
             => RoadRank(cs[i].startRoad) < RoadRank(cs[j].startRoad)

\* Two vehicles arrive within one step, and a later step has a vehicle too.
C18_Witness ==
  /\ gen_last.called
  /\ LET cs == gen_last.commands IN
       /\ Len(cs) >= 5
       /\ cs[1].type = "addVehicle"
       /\ cs[2].type = "addVehicle"
       /\ \E k \in StepsOf(cs) : k < Len(cs) /\ cs[k + 1].type = "addVehicle"

\* The position among the vehicles of the AddVehicle at position i.
VehicleNo(cs, i) == Cardinality({j \in AddsOf(cs) : j <= i})

\* C19: the destination of an emitted AddVehicle is never its origin; it is
\* the cyclic left-turn target of the origin exactly when the second draw was
\* below the scenario's left bias, and otherwise one of the two roads that
\* are neither the origin nor the left-turn target.
C19_Destination ==
  gen_last.called =>
    LET cs == gen_last.commands IN
      /\ Len(gen_last.draws) = Cardinality(AddsOf(cs))
      /\ \A i \in AddsOf(cs) :
           LET below == RandomBelow(gen_last.draws[VehicleNo(cs, i)],
                                    GenScenario.left_bias)
               leftTarget == LeftTurns(cs[i].startRoad, 1)
           IN /\ cs[i].endRoad \in RoadSet
              /\ cs[i].endRoad # cs[i].startRoad
              /\ below <=> (cs[i].endRoad = leftTarget)
              /\ ~below => cs[i].endRoad \in
                              {LeftTurns(cs[i].startRoad, 2), LeftTurns(cs[i].startRoad, 3)}

\* A sequence with a vehicle that turns left and one that does not.
C19_Witness ==
  /\ gen_last.called
  /\ \E i, j \in AddsOf(gen_last.commands) :
       /\ gen_last.commands[i].endRoad = LeftTurns(gen_last.commands[i].startRoad, 1)
       /\ gen_last.commands[j].endRoad # LeftTurns(gen_last.commands[j].startRoad, 1)

\* C20: the id of an emitted AddVehicle is made of the first letter of its
\* start road and a per-road counter: the number of the k-th vehicle
\* generated on a road is k.
C20_PerRoadCounter ==
  gen_last.called =>
    LET cs == gen_last.commands IN
      \A i \in AddsOf(cs) :
        /\ cs[i].vehicleId[1] = FirstLetter(cs[i].startRoad)
        /\ cs[i].vehicleId[2] =
             Cardinality({j \in AddsOf(cs) : j <= i /\ cs[j].startRoad = cs[i].startRoad})


\* The ids of a response that are keys of the arrival mapping, in order.
KnownIds(texts) == SelectSeq(texts, LAMBDA t : t \in DOMAIN arrival_times)

\* What the session holds after a response with the ids texts was processed.
AfterResponse(texts) ==
  ProcessIds(texts, 1, [w |-> wait_times, l |-> left_wait_times, ids |-> wait_ids])

\* C14: a departed id that is not in the arrival mapping is ignored: whatever
\* ids a response holds, the samples added are those of the ids in the
\* mapping, in order, each once, and a response of unknown ids alone adds
\* none; processing a response leaves the arrival mapping and the step
\* counter as they were, raises nothing, and the session goes on with the
\* next command.
C14_UnknownIdIgnored ==
  /\ [](pc = "readIds" =>
         \A ids \in [1..v_count -> EngineIds] :
           LET r == AfterResponse(ids)
               known == KnownIds(ids)
           IN /\ Len(r.w) = Len(wait_times) + Len(known)
              /\ SubSeq(r.w, 1, Len(wait_times)) = wait_times
              /\ SubSeq(r.l, 1, Len(left_wait_times)) = left_wait_times
              /\ Len(r.l) <= Len(left_wait_times) + Len(known)
              /\ Len(r.ids) = Len(r.w)
              /\ \A k \in 1..Len(known) : r.ids[Len(wait_ids) + k].id = known[k]
              /\ known = <<>> => (r.w = wait_times /\ r.l = left_wait_times))
  /\ [][pc = "readIds" =>
         /\ arrival_times' = arrival_times
         /\ current_step' = current_step
         /\ result' = result
         /\ pc' \in {"readIds", "replay", "cleanup"}
         /\ \A k \in (Len(wait_ids) + 1)..Len(wait_ids') :
              wait_ids'[k].id \in DOMAIN arrival_times]_vars

\* A run that returned its metrics after a full response of two ids, one of
\* which was not in the arrival mapping.
C14_Witness ==
  /\ pc = "returned"
  /\ result.kind = "metrics"
  /\ v_count = 2
  /\ raw_len = 2 * ID_SIZE
  /\ Len(wait_times) = 1
  /\ Cardinality(DOMAIN arrival_times) = 1

\* C16: a vehicle is forgotten once it is reported as departed, so each
\* AddVehicle contributes at most one wait sample: the samples of an id never
\* outnumber the ADD_VEHICLE messages sent for it, and the throughput never
\* exceeds the number of ADD_VEHICLE messages sent.
C16_OneSamplePerVehicle ==
  /\ \A v \in EngineIds :
       Cardinality({k \in 1..Len(wait_ids) : wait_ids[k].id = v})
         <= Cardinality({j \in 1..Len(sent) :
                           sent[j].tag = CMD_ADD_VEHICLE /\ sent[j].vehicleId = v})
  /\ Len(wait_times)
       <= Cardinality({j \in 1..Len(sent) : sent[j].tag = CMD_ADD_VEHICLE})

\* C17: whenever a simulation run has ended, by returning or by failing, the
\* engine process it started has exited or was killed.
C17_EngineGoneAtEnd ==
  pc \in {"returned", "failed"} => eng \in {"none", "exited", "killed"}


\* C15: run_simulation on a malformed scenario file, one that does not parse
\* or holds a command without its type, id or roads or with an unknown road,
\* fails before any engine process is spawned: no engine process exists when
\* that error is raised.
C15_FileErrorBeforeSpawn ==
  (pc = "failed" /\ result.error \in {"JSONDecodeError", "KeyError"}) => eng = "none"


GridActive == gs_pc \in {"start", "loop", "done"}
CompActive == cp_pc \in {"loop", "done"}

\* C11: within one call of multi_scenario_optimization the baselines are
\* computed exactly once, before any cost evaluation, and never change after;
\* every per-scenario search and the compromise search hold those three
\* values, and every cost on record was computed with them.
C11_NormsComputedOnce ==
  /\ [](/\ norm_calls <= 1
        /\ (GridActive \/ CompActive \/ scenario_optima # <<>>) =>
             (norm_calls = 1 /\ global_norms # <<>>)
        /\ GridActive => gs_norms = global_norms[1]
        /\ CompActive => cp_norms = global_norms[1]
        /\ \A k \in 1..Len(results) :
             results[k].cost =
               cost(results[k], gs_weights.awt, gs_weights.max, gs_weights.left,
                    Some(global_norms[1][1]), Some(global_norms[1][2]),
                    Some(global_norms[1][3])))
  /\ [][norm_calls >= 1 => (norm_calls' = norm_calls /\ global_norms' = global_norms)]_vars

\* An optimization that reached the end of its compromise search with costs
\* above 0 in its per-scenario search and in the compromise.
C11_Witness ==
  /\ mo_pc = "compromise"
  /\ cp_pc = "done"
  /\ DOMAIN scenario_optima = ScenarioNames(mo_scenarios)
  /\ \E n \in DOMAIN scenario_optima : RatLess(Rat(0), scenario_optima[n].cost)
  /\ RatLess(Rat(0), cp_ret[1].compromise.avg_cost)

\* The runs of calculate_global_norms made for scenario number s and the
\* candidate of rank c.
RunsOf(s, c) ==
  {k \in 1..Len(cn_runs) :
     /\ cn_runs[k].scenario = cn_scenarios[s].name
     /\ IsCandidate(cn_runs[k])
     /\ CandidateRank(cn_runs[k]) = c}

\* C21: when calculate_global_norms returns, each of the three pooled samples
\* holds exactly |scenarios| x |grid| values, one per (scenario, candidate)
\* pair: every pair was simulated exactly once, on the scenario's command list
\* generated from SEED, and the k-th pooled values are what the k-th run
\* measured.
C21_EveryPairOnce ==
  cn_pc = "done" =>
    /\ Len(all_avg) = Len(cn_scenarios) * NumCandidates
    /\ Len(all_max) = Len(cn_scenarios) * NumCandidates
    /\ Len(all_left) = Len(cn_scenarios) * NumCandidates
    /\ Len(cn_runs) = Len(cn_scenarios) * NumCandidates
    /\ \A s \in 1..Len(cn_scenarios) : \A c \in 1..NumCandidates :
         Cardinality(RunsOf(s, c)) = 1
    /\ \A k \in 1..Len(cn_runs) :
         /\ \E s \in 1..Len(cn_scenarios) :
              /\ cn_runs[k].scenario = cn_scenarios[s].name
              /\ cn_runs[k].commands =
                   GenLoop(cn_scenarios[s], 0, 1, random_seed(SEED), 0, <<>>, <<>>).commands
         /\ all_avg[k] = cn_runs[k].metrics.avg_wait
         /\ all_max[k] = Rat(cn_runs[k].metrics.max_wait)
         /\ all_left[k] = cn_runs[k].metrics.left_wait

\* A call on two scenarios has returned with a pooled sample of unequal values.
C21_Witness ==
  /\ cn_pc = "done"
  /\ Len(cn_scenarios) = 2
  /\ Len(all_avg) = 2 * NumCandidates
  /\ \E j, k \in 1..Len(all_avg) : RatLess(all_avg[j], all_avg[k])
  /\ cn_ret # <<>>

\* The AddVehicle commands of the list that carry the id v.
CommandsOf(v) ==
  {j \in 1..Len(commands) : commands[j].type = "addVehicle" /\ commands[j].vehicleId = v}
\* No two AddVehicle commands of the list share an id, as in every list
\* create_command_list produces.
UniqueIds == \A v \in VehIds : Cardinality(CommandsOf(v)) <= 1
\* The k-th wait sample belongs to a vehicle added with a left turn.
LeftSample(k) ==
  \E j \in CommandsOf(wait_ids[k].id) :
    commands[j].endRoad = LeftTurns(commands[j].startRoad, 1)
\* The wait samples from place k on that belong to left turns, in order.
RECURSIVE LeftSamplesFrom(_)
LeftSamplesFrom(k) ==
  IF k > Len(wait_times) THEN <<>>
  ELSE (IF LeftSample(k) THEN <<wait_times[k]>> ELSE <<>>) \o LeftSamplesFrom(k + 1)

====
